---- MODULE Spec2Model ----
(***************************************************************************)
(* emv-term: BER-TLV codec (tlv.rs), DOL codec (tlv.rs), APDU transport    *)
(* (apdu.rs), card commands (card.rs), application model (data.rs) and     *)
(* discovery (main.rs).  Bytes are naturals 0..255, byte strings are       *)
(* sequences.                                                              *)
(* A fallible Rust call is modelled by a record whose field res is "Ok",   *)
(* "Eof" (pcsc::Error::Eof) or "Panic" (index out of bounds,               *)
(* unimplemented!()).                                                      *)
(***************************************************************************)
EXTENDS Integers, Sequences, FiniteSets, TLC

VARIABLES
    op,        \* the operation the current state is the result of
    buf,       \* codecs: the input byte string
    len,       \* length codec: the content length handed to make_length
    out,       \* codecs: the result of the operation
    dol,       \* DOL codec: the DOL handed to the encoder, a sequence of DOLTag
    stack,     \* APDU transport: the send_apdu calls in progress, innermost last
    log,       \* APDU transport: the card.transmit calls made, in order
    ret,       \* APDU transport: the value the call that just ended returned
    call,      \* card commands: the card_* call in progress
    main       \* discovery: the locals of main and of the function it is in

codecVars == <<op, buf, len, out, dol>>
apduVars == <<stack, log, ret>>
flowVars == <<call, main>>
vars == <<op, buf, len, out, dol, stack, log, ret, call, main>>

(***************************************************************************)
(* Machine integers.  A u8 is a natural 0..255.  A u32 is the sequence of  *)
(* its 4 big-endian bytes and a u64 the sequence of its 8 big-endian       *)
(* bytes, so that shifts lose the bits the hardware loses.                 *)
(***************************************************************************)
\* x & mask = mask, for a one-bit mask
BitSet(x, mask) == (x \div mask) % 2 = 1

\* all sequences over S of length 0..n
SeqsUpTo(S, n) == UNION {[1..k -> S] : k \in 0..n}

\* s with its first n elements removed
Drop(s, n) == SubSeq(s, n + 1, Len(s))

\* the n big-endian bytes of the natural value (value < 2^31)
RECURSIVE to_be_bytes(_, _)
to_be_bytes(value, n) ==
    IF n = 0 THEN <<>>
    ELSE Append(to_be_bytes(value \div 256, n - 1), value % 256)

\* `b as u32`, `b as u64` for a byte b
U32FromByte(b) == <<0, 0, 0, b>>
U64FromByte(b) == <<0, 0, 0, 0, 0, 0, 0, b>>

\* `x <<= 8; x |= b` on a u32 or u64: the top byte is shifted out
ShlOr(x, b) == Append(Tail(x), b)

\* `x >>= 8`
Shr8(x) == <<0>> \o SubSeq(x, 1, Len(x) - 1)

\* the u64 length equals the natural n (n < 2^24)
U64Is(length, n) ==
    /\ \A i \in 1..5 : length[i] = 0
    /\ n = length[6] * 65536 + length[7] * 256 + length[8]

Ok(v, rest) == [res |-> "Ok", val |-> v, rest |-> rest]
Eof == [res |-> "Eof"]
Panic == [res |-> "Panic"]

(***************************************************************************)
(* tlv.rs: TagID                                                           *)
(***************************************************************************)
Known(name) == [name |-> name, u |-> <<0, 0, 0, 0>>]
Unknown(u) == [name |-> "Unknown", u |-> u]

\* the match arms of `impl From<u32> for TagID`, for a value below 2^24
KnownTagID(v) ==
    CASE v = 66 -> Known("IssuerIdentificationNumber")
      [] v = 79 -> Known("ApplicationDedicatedFileName")
      [] v = 80 -> Known("ApplicationLabel")
      [] v = 24365 -> Known("LanguagePreference")
      [] v = 24400 -> Known("IssuerURL")
      [] v = 24403 -> Known("InternationalBankAccountNumber")
      [] v = 24404 -> Known("BankIdentifierCode")
      [] v = 24405 -> Known("IssuerCountryCodeAlpha2")
      [] v = 24406 -> Known("IssuerCountryCodeAlpha6")
      [] v = 97 -> Known("ApplicationTemplate")
      [] v = 111 -> Known("FileControlInformationTemplate")
      [] v = 112 -> Known("ReadRecordResponseMessageTemplate")
      [] v = 115 -> Known("DirectoryDiscretionaryTemplate")
      [] v = 132 -> Known("DedicatedFileName")
      [] v = 135 -> Known("ApplicationPriorityIndicator")
      [] v = 136 -> Known("ShortFileIdentifier")
      [] v = 157 -> Known("DirectoryDefinitionFileName")
      [] v = 40710 -> Known("ApplicationIdentifier")
      [] v = 40721 -> Known("IssuerCodeTableIndex")
      [] v = 40722 -> Known("ApplicationPreferredName")
      [] v = 40760 -> Known("ProcessingOptionsDataObjectList")
      [] v = 40781 -> Known("LogEntry")
      [] v = 165 -> Known("FileControlInformationProprietaryTemplate")
      [] v = 48908 -> Known("FileControlInformationIssuerDiscretionaryData")
      [] OTHER -> Unknown(to_be_bytes(v, 4))

\* impl From<u32> for TagID
TagIDFrom(value) ==
    IF value[1] # 0 THEN Unknown(value)
    ELSE KnownTagID(value[2] * 65536 + value[3] * 256 + value[4])

\* impl From<TagID> for u32: every variant but CommandTemplate and Unknown
\* hits unimplemented!()
TagIDToU32(id) ==
    IF id.name = "CommandTemplate" THEN [res |-> "Ok", val |-> <<0, 0, 0, 131>>]
    ELSE IF id.name = "Unknown" THEN [res |-> "Ok", val |-> id.u]
    ELSE Panic

\* the while loop of int_to_least_bytes
RECURSIVE StripLeadingZeros(_)
StripLeadingZeros(bytes) ==
    IF bytes[1] = 0 /\ Len(bytes) > 1 THEN StripLeadingZeros(Tail(bytes))
    ELSE bytes

\* int_to_least_bytes(value: u64)
int_to_least_bytes(value) == StripLeadingZeros(value)

\* impl From<TagID> for Vec<u8>: int_to_least_bytes(u32::from(value) as u64)
TagIDBytes(id) ==
    LET u == TagIDToU32(id) IN
    IF u.res # "Ok" THEN Panic
    ELSE [res |-> "Ok", val |-> int_to_least_bytes(<<0, 0, 0, 0>> \o u.val)]

(***************************************************************************)
(* tlv.rs: TagList readers                                                 *)
(***************************************************************************)
read_byte(vec) ==
    IF Len(vec) = 0 THEN Eof ELSE Ok(Head(vec), Tail(vec))

\* the while loop of read_id: its condition tests the next_id bound before
\* the loop (the `let next_id` of the loop body is a new binding)
RECURSIVE read_id_loop(_, _, _)
read_id_loop(vec, id, next_id) ==
    IF BitSet(next_id, 128) THEN
        LET b == read_byte(vec) IN
        IF b.res # "Ok" THEN Eof
        ELSE read_id_loop(b.rest, ShlOr(id, b.val), next_id)
    ELSE Ok(id, vec)

read_id(vec) ==
    LET b == read_byte(vec) IN
    IF b.res # "Ok" THEN Eof
    ELSE IF b.val % 32 = 31 THEN
        LET n == read_byte(b.rest) IN
        IF n.res # "Ok" THEN Eof
        ELSE read_id_loop(n.rest, ShlOr(U32FromByte(b.val), n.val), n.val)
    ELSE Ok(U32FromByte(b.val), b.rest)

\* is_id_primitive_loop that masks the low byte instead of shifting down to
\* the first one
is_id_primitive_low(data) == <<0, 0, 0, data[4]>>

\* the while loop of is_id_primitive: shift right until only the low byte is
\* left
RECURSIVE is_id_primitive_loop(_)
is_id_primitive_loop(data) ==
    IF <<data[1], data[2], data[3]>> # <<0, 0, 0>> THEN is_id_primitive_loop(Shr8(data))
    ELSE data

is_id_primitive(id) == ~BitSet(is_id_primitive_loop(id)[4], 32)

\* the while loop of read_length: num_octets is never decremented
RECURSIVE read_length_loop(_, _, _)
read_length_loop(vec, length, num_octets) ==
    IF num_octets > 0 THEN
        LET b == read_byte(vec) IN
        IF b.res # "Ok" THEN Eof
        ELSE read_length_loop(b.rest, ShlOr(length, b.val), num_octets)
    ELSE Ok(length, vec)

read_length(vec) ==
    LET b == read_byte(vec) IN
    IF b.res # "Ok" THEN Eof
    ELSE IF BitSet(b.val, 128) THEN read_length_loop(b.rest, U64FromByte(0), b.val % 128)
    ELSE Ok(U64FromByte(b.val), b.rest)

\* make_length(len: u64), for a natural n
make_length(n) ==
    IF n <= 127 THEN <<n>>
    ELSE LET bytes == int_to_least_bytes(to_be_bytes(n, 8)) IN
         <<Len(bytes) % 128>> \o bytes

\* the while loop of read_content
RECURSIVE read_content_loop(_, _, _)
read_content_loop(vec, acc, length) ==
    IF ~U64Is(length, Len(acc)) THEN
        LET b == read_byte(vec) IN
        IF b.res # "Ok" THEN Eof
        ELSE read_content_loop(b.rest, Append(acc, b.val), length)
    ELSE Ok(acc, vec)

\* read_content that returns the bytes there are when fewer than length are
\* left
read_content_lenient(vec, length) ==
    IF \E n \in 0..Len(vec) : U64Is(length, n) THEN read_content_loop(vec, <<>>, length)
    ELSE Ok(vec, <<>>)

read_content(vec, length) == read_content_loop(vec, <<>>, length)

(***************************************************************************)
(* tlv.rs: TagContents                                                     *)
(***************************************************************************)
Invalid == [kind |-> "Invalid"]
String(s) == [kind |-> "String", s |-> s]
Bytes(b) == [kind |-> "Bytes", b |-> b]
Byte(b) == [kind |-> "Byte", byte |-> b]
Number(n) == [kind |-> "Number", n |-> n]
Constructed(t) == [kind |-> "Constructed", tl |-> t]

Tag(id, contents) == [id |-> id, contents |-> contents]

IsCont(bytes, i) == i <= Len(bytes) /\ bytes[i] \in 128..191

\* String::from_utf8(..).is_ok(): the well-formed UTF-8 byte sequences
RECURSIVE from_utf8_ok(_)
from_utf8_ok(bytes) ==
    IF Len(bytes) = 0 THEN TRUE
    ELSE LET b == bytes[1] IN
         CASE b < 128 -> from_utf8_ok(Drop(bytes, 1))
           [] b \in 194..223 -> IsCont(bytes, 2) /\ from_utf8_ok(Drop(bytes, 2))
           [] b = 224 ->
                /\ Len(bytes) >= 2 /\ bytes[2] \in 160..191
                /\ IsCont(bytes, 3) /\ from_utf8_ok(Drop(bytes, 3))
           [] b \in (225..236) \cup {238, 239} ->
                /\ IsCont(bytes, 2) /\ IsCont(bytes, 3)
                /\ from_utf8_ok(Drop(bytes, 3))
           [] b = 237 ->
                /\ Len(bytes) >= 2 /\ bytes[2] \in 128..159
                /\ IsCont(bytes, 3) /\ from_utf8_ok(Drop(bytes, 3))
           [] b = 240 ->
                /\ Len(bytes) >= 2 /\ bytes[2] \in 144..191
                /\ IsCont(bytes, 3) /\ IsCont(bytes, 4)
                /\ from_utf8_ok(Drop(bytes, 4))
           [] b \in 241..243 ->
                /\ IsCont(bytes, 2) /\ IsCont(bytes, 3) /\ IsCont(bytes, 4)
                /\ from_utf8_ok(Drop(bytes, 4))
           [] b = 244 ->
                /\ Len(bytes) >= 2 /\ bytes[2] \in 128..143
                /\ IsCont(bytes, 3) /\ IsCont(bytes, 4)
                /\ from_utf8_ok(Drop(bytes, 4))
           [] OTHER -> FALSE

\* TagContents::make_primitive; bytes[0] of an empty slice panics
make_primitive(bytes, tag) ==
    IF tag.name \in {"LanguagePreference", "ApplicationLabel"} THEN
        IF from_utf8_ok(bytes) THEN [res |-> "Ok", val |-> String(bytes)]
        ELSE [res |-> "Ok", val |-> Invalid]
    ELSE IF tag.name \in {"ShortFileIdentifier", "ApplicationPriorityIndicator",
                          "IssuerCodeTableIndex"} THEN
        IF Len(bytes) = 0 THEN Panic
        ELSE [res |-> "Ok", val |-> Byte(bytes[1])]
    ELSE [res |-> "Ok", val |-> Bytes(bytes)]

(***************************************************************************)
(* tlv.rs: TagList decode and encode                                       *)
(***************************************************************************)
RECURSIVE TagListTryFrom(_)
RECURSIVE TagListTryFromLoop(_, _)

\* the body of the while loop of `impl TryFrom<&VecDeque<u8>> for TagList`
TagListTryFromLoop(data, tags) ==
    IF Len(data) = 0 THEN [res |-> "Ok", val |-> tags]
    ELSE
    LET id == read_id(data) IN
    IF id.res # "Ok" THEN Eof ELSE
    LET tag_id == TagIDFrom(id.val)
        length == read_length(id.rest) IN
    IF length.res # "Ok" THEN Eof ELSE
    LET contents == read_content(length.rest, length.val) IN
    IF contents.res # "Ok" THEN Eof ELSE
    IF is_id_primitive(id.val) THEN
        LET prim == make_primitive(contents.val, tag_id) IN
        IF prim.res # "Ok" THEN Panic
        ELSE TagListTryFromLoop(contents.rest, Append(tags, Tag(tag_id, prim.val)))
    ELSE
        LET tag_list == TagListTryFrom(contents.val) IN
        IF tag_list.res # "Ok" THEN tag_list
        ELSE TagListTryFromLoop(contents.rest,
                                Append(tags, Tag(tag_id, Constructed(tag_list.val))))

\* impl TryFrom<&VecDeque<u8>> for TagList
TagListTryFrom(value) == TagListTryFromLoop(value, <<>>)

RECURSIVE TagListBytes(_)
RECURSIVE TagListBytesLoop(_, _)

\* impl From<&TagContents> for Vec<u8>
TagContentsBytes(value) ==
    CASE value.kind = "Invalid" -> [res |-> "Ok", val |-> <<>>]
      [] value.kind = "String" -> [res |-> "Ok", val |-> value.s]
      [] value.kind = "Bytes" -> [res |-> "Ok", val |-> value.b]
      [] value.kind = "Byte" -> [res |-> "Ok", val |-> <<value.byte>>]
      [] value.kind = "Number" -> [res |-> "Ok", val |-> value.n]
      [] value.kind = "Constructed" -> TagListBytes(value.tl)

\* the for loop of `impl From<&TagList> for Vec<u8>`
TagListBytesLoop(tags, acc) ==
    IF Len(tags) = 0 THEN [res |-> "Ok", val |-> acc]
    ELSE
    LET tag == Head(tags)
        data == TagContentsBytes(tag.contents) IN
    IF data.res # "Ok" THEN Panic ELSE
    LET length == make_length(Len(data.val))
        id == TagIDBytes(tag.id) IN
    IF id.res # "Ok" THEN Panic
    ELSE TagListBytesLoop(Tail(tags), acc \o id.val \o length \o data.val)

\* impl From<&TagList> for Vec<u8>
TagListBytes(value) == TagListBytesLoop(value, <<>>)

(***************************************************************************)
(* TLV codec: decode a byte string, re-encode the decoded TagList          *)
(***************************************************************************)
MaxLen == 5

\* 0x00 0x01 0x02 0x0C 0x2D 0x5F 0x81 0x88 0xBF
TlvBytes == {0, 1, 2, 12, 45, 95, 129, 136, 191}

None == [res |-> "None"]

\* no APDU exchange is in progress
ApduIdle == stack = <<>> /\ log = <<>> /\ ret = None

\* no card command and no discovery is in progress
FlowIdle == call = None /\ main = None

InitTlv ==
    /\ op = "input"
    /\ buf \in SeqsUpTo(TlvBytes, MaxLen)
    /\ len = 0
    /\ out = None
    /\ dol = <<>>
    /\ ApduIdle
    /\ FlowIdle

\* TagList::read_id(&mut buf)
ReadId ==
    /\ op = "input"
    /\ op' = "read_id"
    /\ out' = read_id(buf)
    /\ UNCHANGED <<buf, len, dol, apduVars, flowVars>>

\* TagList::try_from(&buf)
Decode ==
    /\ op = "input"
    /\ op' = "decode"
    /\ out' = TagListTryFrom(buf)
    /\ UNCHANGED <<buf, len, dol, apduVars, flowVars>>

\* Vec::<u8>::from(&tag_list) on the TagList just decoded
Encode ==
    /\ op = "decode"
    /\ out.res = "Ok"
    /\ op' = "encode"
    /\ out' = TagListBytes(out.val)
    /\ UNCHANGED <<buf, len, dol, apduVars, flowVars>>

NextTlv == ReadId \/ Decode \/ Encode

SpecTlv == InitTlv /\ [][NextTlv]_vars

(***************************************************************************)
(* Length codec: make_length, then read_length on its output followed by   *)
(* the bytes of buf                                                        *)
(***************************************************************************)
LenSweep == 130

\* 255, 256, 65535, 65536: the edges of the one- and two-octet long forms
LenInputs == (0..LenSweep) \cup {255, 256, 65535, 65536}

InitLen ==
    /\ op = "input"
    /\ len \in LenInputs
    /\ buf \in {<<>>, <<7>>, <<129, 0>>}
    /\ out = None
    /\ dol = <<>>
    /\ ApduIdle
    /\ FlowIdle

\* TagList::make_length(len)
MakeLength ==
    /\ op = "input"
    /\ op' = "make_length"
    /\ out' = [res |-> "Ok", val |-> make_length(len)]
    /\ UNCHANGED <<buf, len, dol, apduVars, flowVars>>

\* TagList::read_length on the length field followed by buf
ReadLength ==
    /\ op = "make_length"
    /\ op' = "read_length"
    /\ out' = [field |-> out.val, read |-> read_length(out.val \o buf)]
    /\ UNCHANGED <<buf, len, dol, apduVars, flowVars>>

NextLen == MakeLength \/ ReadLength

SpecLen == InitLen /\ [][NextLen]_vars

(***************************************************************************)
(* tlv.rs: DOL                                                             *)
(***************************************************************************)
DOLTag(id, contents, exp_len) == [id |-> id, contents |-> contents, exp_len |-> exp_len]

\* vec![0; n]
Zeros(n) == [i \in 1..n |-> 0]

\* fit_bytes that does not pad a value shorter than the field
fit_bytes_unpadded(value, exp_len, numeric) ==
    IF Len(value) <= exp_len THEN value
    ELSE IF ~numeric THEN SubSeq(value, 1, exp_len)
    ELSE SubSeq(value, exp_len + 1, Len(value))

\* DOL::fit_bytes; Vec::split_off(at) leaves [0, at) in the vector and
\* returns [at, len)
fit_bytes(value, exp_len, numeric) ==
    IF Len(value) = exp_len THEN value
    ELSE IF Len(value) < exp_len THEN
        IF ~numeric THEN value \o Zeros(exp_len - Len(value))
        ELSE Zeros(exp_len - Len(value)) \o value
    ELSE
        IF ~numeric THEN SubSeq(value, 1, exp_len)
        ELSE SubSeq(value, exp_len + 1, Len(value))

\* the while loop of `impl TryFrom<&VecDeque<u8>> for DOL`: an entry whose
\* id is not primitive is read and not pushed
RECURSIVE DOLTryFromLoop(_, _)
DOLTryFromLoop(data, fields) ==
    IF Len(data) = 0 THEN [res |-> "Ok", val |-> fields]
    ELSE
    LET id == read_id(data) IN
    IF id.res # "Ok" THEN Eof ELSE
    LET tag_id == TagIDFrom(id.val)
        length == read_byte(id.rest) IN
    IF length.res # "Ok" THEN Eof
    ELSE IF is_id_primitive(id.val) THEN
        DOLTryFromLoop(length.rest, Append(fields, DOLTag(tag_id, Invalid, length.val)))
    ELSE DOLTryFromLoop(length.rest, fields)

\* impl TryFrom<&VecDeque<u8>> for DOL
DOLTryFrom(value) == DOLTryFromLoop(value, <<>>)

\* the match of `impl From<DOL> for Vec<u8>`: every arm passes numeric = false
DOLTagBytes(tag) ==
    CASE tag.contents.kind \in {"Invalid", "Constructed"} -> Zeros(tag.exp_len)
      [] tag.contents.kind = "String" -> fit_bytes(tag.contents.s, tag.exp_len, FALSE)
      [] tag.contents.kind = "Bytes" -> fit_bytes(tag.contents.b, tag.exp_len, FALSE)
      [] tag.contents.kind = "Byte" -> fit_bytes(<<tag.contents.byte>>, tag.exp_len, FALSE)
      [] tag.contents.kind = "Number" -> fit_bytes(tag.contents.n, tag.exp_len, FALSE)

\* impl From<DOL> for Vec<u8>
RECURSIVE DOLBytes(_)
DOLBytes(fields) ==
    IF Len(fields) = 0 THEN <<>>
    ELSE DOLTagBytes(Head(fields)) \o DOLBytes(Tail(fields))

(***************************************************************************)
(* DOL codec: encode a DOL whose fields carry values; fit_bytes on a value *)
(***************************************************************************)
MaxFields == 2
MaxExpLen == 5
MaxValueLen == 4
MaxWireLen == 5

\* the values a field may carry: unset, nested, text "A" and "ABC", byte
\* strings of 0, 1 and 4 bytes, the byte 5, the numbers 5 and 0x01020304
FieldContents ==
    { Invalid, Constructed(<<>>), String(<<65>>), String(<<65, 66, 67>>),
      Bytes(<<>>), Bytes(<<5>>), Bytes(<<1, 2, 3, 4>>), Byte(5),
      Number(<<0, 0, 0, 5>>), Number(<<1, 2, 3, 4>>) }

\* 0x9F02, the id of a PDOL's amount field
FieldIds == { TagIDFrom(<<0, 0, 159, 2>>) }

Fields == { DOLTag(i, c, e) : i \in FieldIds, c \in FieldContents, e \in 0..MaxExpLen }

\* the bytes of a DOL on the wire: 0x02 (an id or a length), 0x61 (a
\* constructed id), 0x81 (a continuation byte), 0x95 (a primitive id) and
\* 0x9F (the first byte of a two-byte id)
DolWireBytes == {2, 97, 129, 149, 159}

InitDol ==
    /\ out = None
    /\ ApduIdle
    /\ FlowIdle
    /\ \/ /\ op = "input"
          /\ dol \in SeqsUpTo(Fields, MaxFields) /\ dol # <<>>
          /\ buf = <<>> /\ len = 0
       \/ /\ op = "input"
          /\ dol = <<>>
          /\ buf \in SeqsUpTo({0, 5, 9}, MaxValueLen)
          /\ len \in 0..MaxExpLen
       \/ /\ op = "wire"
          /\ dol = <<>>
          /\ buf \in SeqsUpTo(DolWireBytes, MaxWireLen)
          /\ len = 0

\* Vec::<u8>::from(dol)
DolEncode ==
    /\ op = "input" /\ dol # <<>>
    /\ op' = "dol_encode"
    /\ out' = DOLBytes(dol)
    /\ UNCHANGED <<buf, len, dol, apduVars, flowVars>>

\* DOL::fit_bytes(&buf, len, numeric)
FitBytes ==
    /\ op = "input" /\ dol = <<>>
    /\ op' = "fit_bytes"
    /\ \E numeric \in BOOLEAN :
        out' = [numeric |-> numeric, bytes |-> fit_bytes(buf, len, numeric)]
    /\ UNCHANGED <<buf, len, dol, apduVars, flowVars>>

\* DOL::try_from(&buf)
DolDecode ==
    /\ op = "wire"
    /\ op' = "dol_decode"
    /\ out' = DOLTryFrom(buf)
    /\ dol' = IF DOLTryFrom(buf).res = "Ok" THEN DOLTryFrom(buf).val ELSE <<>>
    /\ UNCHANGED <<buf, len, apduVars, flowVars>>

\* Vec::<u8>::from(dol) on the DOL just decoded, no value set
DolReencode ==
    /\ op = "dol_decode" /\ out.res = "Ok"
    /\ op' = "dol_reencode"
    /\ out' = DOLBytes(dol)
    /\ UNCHANGED <<buf, len, dol, apduVars, flowVars>>

NextDol == DolEncode \/ FitBytes \/ DolDecode \/ DolReencode

SpecDol == InitDol /\ [][NextDol]_vars

(***************************************************************************)
(* apdu.rs: send_apdu.  One frame of stack per call of send_apdu; its pc   *)
(* is "transmit" before card.transmit, "while" at the head of the          *)
(* `while response.sw1 == 0x61` loop, "get_response" inside the recursive  *)
(* call of the loop body and "correct" inside the recursive call of the    *)
(* 0x6c branch.  The card answers each transmit with any of Replies or     *)
(* with a transport error.                                                 *)
(***************************************************************************)
MaxTransmits == 3

ApduCommand(class, instruction, param1, param2, data, length_expected) ==
    [class |-> class, instruction |-> instruction, param1 |-> param1,
     param2 |-> param2, data |-> data, length_expected |-> length_expected]

ApduResponse(data, sw1, sw2) == [data |-> data, sw1 |-> sw1, sw2 |-> sw2]

Err(e) == [res |-> "Err", err |-> e]

\* the commands handed to send_apdu: SELECT "1P", READ RECORD 1 of SFI 1,
\* GET PROCESSING OPTIONS with an empty command template, a command with
\* Le = 5, and a SELECT whose name is 256 bytes long
Commands ==
    { ApduCommand(0, 164, 4, 0, <<49, 80>>, 0),
      ApduCommand(0, 178, 1, 12, <<>>, 0),
      ApduCommand(128, 168, 0, 0, <<131, 0>>, 0),
      ApduCommand(128, 202, 159, 23, <<>>, 5),
      ApduCommand(0, 164, 4, 0, [i \in 1..256 |-> 0], 0) }

\* the status words the card may answer with: 9000, 9001, 610A, 6100, 6C1A,
\* 6A81, 6A82, 6A83, 6A00, 6F00
Statuses ==
    { <<144, 0>>, <<144, 1>>, <<97, 10>>, <<97, 0>>, <<108, 26>>,
      <<106, 129>>, <<106, 130>>, <<106, 131>>, <<106, 0>>, <<111, 0>> }

\* the data of a response: none, 0x88, and 0x00 0x01; in sequence they make
\* 0x00 0x01 0x88 (one tag), 0x88 alone (cut short) and 0x88 0x00 0x01 (a
\* short file identifier of length 0)
ReplyData == { <<>>, <<136>>, <<0, 1>> }

Replies == { ApduResponse(d, sw[1], sw[2]) : d \in ReplyData, sw \in Statuses }

\* apdu_out: the bytes handed to card.transmit
ApduOut(apdu_command) ==
    <<apdu_command.class, apdu_command.instruction,
      apdu_command.param1, apdu_command.param2>>
    \o (IF Len(apdu_command.data) > 0
        THEN <<Len(apdu_command.data) % 256>> \o apdu_command.data
        ELSE <<>>)
    \o <<apdu_command.length_expected>>

\* ApduInLen without the Le = 0 case
ApduInLenNoDefault(apdu_command) == apdu_command.length_expected + 2

\* the length of apdu_in, the receive buffer
ApduInLen(apdu_command) ==
    (IF apdu_command.length_expected = 0 THEN 256
     ELSE apdu_command.length_expected) + 2

\* GetResponseCommand with the class byte of an interindustry command
\* instead of the originating command's
GetResponseCommandClassZero(apdu_command, response) ==
    ApduCommand(0, 192, 0, 0, <<>>, response.sw2)

\* the GET RESPONSE command of the while loop
GetResponseCommand(apdu_command, response) ==
    ApduCommand(apdu_command.class, 192, 0, 0, <<>>, response.sw2)

\* CorrectCommand without the command data
CorrectCommandNoData(apdu_command, response) ==
    ApduCommand(apdu_command.class, apdu_command.instruction,
                apdu_command.param1, apdu_command.param2, <<>>, response.sw2)

\* the command reissued on sw1 = 0x6c
CorrectCommand(apdu_command, response) ==
    ApduCommand(apdu_command.class, apdu_command.instruction,
                apdu_command.param1, apdu_command.param2,
                apdu_command.data, response.sw2)

\* StatusResult without the (0x6A, 0x83) alternative of the not-found arm
StatusResultOneNotFound(response) ==
    CASE response.sw1 = 144 /\ response.sw2 = 0 -> [res |-> "Ok", val |-> response]
      [] response.sw1 = 106 /\ response.sw2 = 129 -> Err("UnsupportedFeature")
      [] response.sw1 = 106 /\ response.sw2 = 130 -> Err("FileNotFound")
      [] OTHER -> Err("UnknownError")

\* the final match on (sw1, sw2)
StatusResult(response) ==
    CASE response.sw1 = 144 /\ response.sw2 = 0 -> [res |-> "Ok", val |-> response]
      [] response.sw1 = 106 /\ response.sw2 = 129 -> Err("UnsupportedFeature")
      [] response.sw1 = 106 /\ response.sw2 \in {130, 131} -> Err("FileNotFound")
      [] OTHER -> Err("UnknownError")

Frame(apdu_command) == [cmd |-> apdu_command, response |-> None, pc |-> "transmit"]

Top == stack[Len(stack)]
Pop == SubSeq(stack, 1, Len(stack) - 1)
SetTop(frame) == [stack EXCEPT ![Len(stack)] = frame]

Transmitted(apdu_command, reply) ==
    [cmd |-> apdu_command, apdu_out |-> ApduOut(apdu_command),
     apdu_in_len |-> ApduInLen(apdu_command), reply |-> reply]

InitApdu ==
    /\ op = "send_apdu"
    /\ buf = <<>> /\ len = 0 /\ out = None /\ dol = <<>>
    /\ \E c \in Commands : stack = <<Frame(c)>>
    /\ log = <<>>
    /\ ret = None
    /\ FlowIdle

\* card.transmit(&apdu_out, &mut apdu_in) returns a response
Transmit ==
    /\ stack # <<>> /\ Top.pc = "transmit"
    /\ Len(log) < MaxTransmits
    /\ \E reply \in Replies :
        /\ log' = Append(log, Transmitted(Top.cmd, reply))
        /\ stack' = SetTop([Top EXCEPT !.response = reply, !.pc = "while"])
    /\ UNCHANGED <<ret, codecVars, flowVars>>

\* card.transmit(..)? fails: send_apdu returns the transport error
TransmitFail ==
    /\ stack # <<>> /\ Top.pc = "transmit"
    /\ Len(log) < MaxTransmits
    /\ log' = Append(log, Transmitted(Top.cmd, Err("Transport")))
    /\ stack' = Pop
    /\ ret' = Err("Transport")
    /\ UNCHANGED <<codecVars, flowVars>>

\* while response.sw1 == 0x61: call send_apdu with the GET RESPONSE command
GetResponse ==
    /\ stack # <<>> /\ Top.pc = "while"
    /\ Top.response.sw1 = 97
    /\ stack' = Append(SetTop([Top EXCEPT !.pc = "get_response"]),
                       Frame(GetResponseCommand(Top.cmd, Top.response)))
    /\ UNCHANGED <<log, ret, codecVars, flowVars>>

\* GetResponseReturn with a failed GET RESPONSE tried again: the loop goes
\* round once more instead of returning the failure
GetResponseReturnRetry ==
    /\ stack # <<>> /\ Top.pc = "get_response"
    /\ ret # None
    /\ IF ret.res = "Ok"
       THEN stack' = SetTop([Top EXCEPT
                    !.response = ApduResponse(Top.response.data \o ret.val.data,
                                              ret.val.sw1, ret.val.sw2),
                    !.pc = "while"])
       ELSE stack' = SetTop([Top EXCEPT !.pc = "while"])
    /\ ret' = None
    /\ UNCHANGED <<log, codecVars, flowVars>>

\* let new_response = send_apdu(..)?: an error is returned to the caller, a
\* response replaces sw1 and sw2 and extends data
GetResponseReturn ==
    /\ stack # <<>> /\ Top.pc = "get_response"
    /\ ret # None
    /\ IF ret.res = "Ok"
       THEN /\ stack' = SetTop([Top EXCEPT
                    !.response = ApduResponse(Top.response.data \o ret.val.data,
                                              ret.val.sw1, ret.val.sw2),
                    !.pc = "while"])
            /\ ret' = None
       ELSE /\ stack' = Pop
            /\ ret' = ret
    /\ UNCHANGED <<log, codecVars, flowVars>>

\* if response.sw1 == 0x6c: call send_apdu with the corrected command
Correct ==
    /\ stack # <<>> /\ Top.pc = "while"
    /\ Top.response.sw1 # 97
    /\ Top.response.sw1 = 108
    /\ stack' = Append(SetTop([Top EXCEPT !.pc = "correct"]),
                       Frame(CorrectCommand(Top.cmd, Top.response)))
    /\ UNCHANGED <<log, ret, codecVars, flowVars>>

\* return send_apdu(card, &new_apdu_command)
CorrectReturn ==
    /\ stack # <<>> /\ Top.pc = "correct"
    /\ ret # None
    /\ stack' = Pop
    /\ ret' = ret
    /\ UNCHANGED <<log, codecVars, flowVars>>

\* match (response.sw1, response.sw2)
Resolve ==
    /\ stack # <<>> /\ Top.pc = "while"
    /\ Top.response.sw1 \notin {97, 108}
    /\ stack' = Pop
    /\ ret' = StatusResult(Top.response)
    /\ UNCHANGED <<log, codecVars, flowVars>>

NextApdu ==
    \/ Transmit \/ TransmitFail
    \/ GetResponse \/ GetResponseReturn
    \/ Correct \/ CorrectReturn
    \/ Resolve

SpecApdu == InitApdu /\ [][NextApdu]_vars

\* the outermost send_apdu has returned ret
Done == stack = <<>> /\ ret # None

(***************************************************************************)
(* card.rs: card_select, card_read_record, card_get_processing_options.    *)
(* Each builds an ApduCommand, calls send_apdu and decodes the data of the *)
(* response.                                                               *)
(***************************************************************************)
\* a & b on naturals
RECURSIVE BitAnd(_, _)
BitAnd(a, b) ==
    IF a = 0 \/ b = 0 THEN 0
    ELSE (a % 2) * (b % 2) + 2 * BitAnd(a \div 2, b \div 2)

\* a | b on naturals
RECURSIVE BitOr(_, _)
BitOr(a, b) ==
    IF a = 0 THEN b
    ELSE IF b = 0 THEN a
    ELSE (IF a % 2 = 1 \/ b % 2 = 1 THEN 1 ELSE 0) + 2 * BitOr(a \div 2, b \div 2)

\* a << n on a u8: the bits shifted past bit 7 are lost
Shl8(a, n) == (a * 2 ^ n) % 256

\* card_read_record_apdu_cmd that shifts before it masks
card_read_record_apdu_cmd_unmasked(short_file_identifier, record_number) ==
    ApduCommand(0, 178, record_number,
                BitOr(BitAnd(Shl8(short_file_identifier, 3), 31), 4), <<>>, 0)

\* the apdu_cmd of card_read_record
card_read_record_apdu_cmd(short_file_identifier, record_number) ==
    ApduCommand(0, 178, record_number,
                BitOr(Shl8(BitAnd(short_file_identifier, 31), 3), 4), <<>>, 0)

\* the apdu_cmd of card_select
card_select_apdu_cmd(file_name, next) ==
    ApduCommand(0, 164, 4, IF next THEN BitOr(0, 2) ELSE 0, file_name, 0)

\* the apdu_cmd of card_get_processing_options
card_get_processing_options_apdu_cmd(pdol) ==
    ApduCommand(128, 168, 0, 0, pdol, 0)

\* `let data = send_apdu(card, &apdu_cmd)?;
\*  let tag_list = TagList::try_from(data.data())?; Ok(tag_list)`
\* for the value data that send_apdu returned
card_tag_list(data) ==
    IF data.res # "Ok" THEN data
    ELSE LET tag_list == TagListTryFrom(data.val.data) IN
         IF tag_list.res = "Ok" THEN [res |-> "Ok", val |-> tag_list.val]
         ELSE tag_list

card_select(file_name, next) ==
    [fn |-> "card_select", file_name |-> file_name, next |-> next]

card_read_record(short_file_identifier, record_number) ==
    [fn |-> "card_read_record", short_file_identifier |-> short_file_identifier,
     record_number |-> record_number]

card_get_processing_options(pdol) ==
    [fn |-> "card_get_processing_options", pdol |-> pdol]

\* the command a card_* call hands to send_apdu
apdu_cmd(c) ==
    CASE c.fn = "card_select" -> card_select_apdu_cmd(c.file_name, c.next)
      [] c.fn = "card_read_record" ->
            card_read_record_apdu_cmd(c.short_file_identifier, c.record_number)
      [] c.fn = "card_get_processing_options" ->
            card_get_processing_options_apdu_cmd(c.pdol)

\* "1PAY.SYS.DDF01"
PseName == <<49, 80, 65, 89, 46, 83, 89, 83, 46, 68, 68, 70, 48, 49>>

\* the calls made: SELECT of the PSE, first and next occurrence; READ RECORD
\* with short file identifiers 1, 31 and 0xE1 (bits above the low five set);
\* GET PROCESSING OPTIONS with an empty command template
CardCalls ==
    { card_select(PseName, FALSE), card_select(PseName, TRUE),
      card_read_record(1, 1), card_read_record(31, 2), card_read_record(225, 255),
      card_get_processing_options(<<131, 0>>) }

InitCard ==
    /\ op = "card"
    /\ buf = <<>> /\ len = 0 /\ out = None /\ dol = <<>>
    /\ call \in CardCalls
    /\ stack = <<Frame(apdu_cmd(call))>>
    /\ log = <<>>
    /\ ret = None
    /\ main = None

\* send_apdu has returned to the card_* call: decode, return
CardReturn ==
    /\ op = "card" /\ Done
    /\ op' = "card_return"
    /\ out' = card_tag_list(ret)
    /\ UNCHANGED <<buf, len, dol, apduVars, flowVars>>

NextCard == NextApdu \/ CardReturn

SpecCard == InitCard /\ [][NextCard]_vars

(***************************************************************************)
(* main.rs: get_pse_sfi, find_possible_applications and main.  The record  *)
(* main holds the position of main (pc), its locals sfi and                *)
(* possible_applications, the record number i of                           *)
(* find_possible_applications, the commands handed to send_apdu with what  *)
(* send_apdu returned (exchanges) and what was printed or panicked with    *)
(* (console).  The card answers each exchange with any of SelectResults or *)
(* RecordResults.                                                          *)
(***************************************************************************)
Some(v) == [res |-> "Some", val |-> v]

\* TagList::get_tag: the first tag with the id
get_tag(tags, tag_id) ==
    LET found == {k \in 1..Len(tags) : tags[k].id = tag_id} IN
    IF found = {} THEN None
    ELSE Some(tags[CHOOSE k \in found : \A j \in found : k <= j])

\* TagList::get_tags: the tags with the id, in order
get_tags(tags, tag_id) == SelectSeq(tags, LAMBDA t : t.id = tag_id)

\* Tag::get_tag
Tag_get_tag(tag, tag_id) ==
    IF tag.contents.kind = "Constructed" THEN get_tag(tag.contents.tl, tag_id)
    ELSE None

\* Tag::get_tags
Tag_get_tags(tag, tag_id) ==
    IF tag.contents.kind = "Constructed" THEN get_tags(tag.contents.tl, tag_id)
    ELSE <<>>

\* the for loop of compare_slice; p2[i] past the end of p2 panics
RECURSIVE compare_slice_loop(_, _, _)
compare_slice_loop(p1, p2, k) ==
    IF k > Len(p1) THEN [res |-> "Ok", val |-> TRUE]
    ELSE IF k > Len(p2) THEN Panic
    ELSE IF p2[k] # p1[k] THEN [res |-> "Ok", val |-> FALSE]
    ELSE compare_slice_loop(p1, p2, k + 1)

\* compare_slice: the length test compares p1.len() with itself
compare_slice(p1, p2) ==
    IF Len(p1) # Len(p1) THEN [res |-> "Ok", val |-> FALSE]
    ELSE compare_slice_loop(p1, p2, 1)

\* Mastercard, Visa
acceptable_adf_names ==
    << <<160, 0, 0, 0, 4, 16, 16>>, <<160, 0, 0, 0, 3, 16, 16>> >>

\* the `for acceptable_name in &acceptable_adf_names` loop
RECURSIVE acceptable_loop(_, _)
acceptable_loop(names, adf_name) ==
    IF Len(names) = 0 THEN [res |-> "Ok", val |-> FALSE]
    ELSE LET c == compare_slice(Head(names), adf_name) IN
         IF c.res # "Ok" THEN Panic
         ELSE IF c.val THEN c
         ELSE acceptable_loop(Tail(names), adf_name)

\* the `'applications: for application in applications` loop
RECURSIVE applications_loop(_, _)
applications_loop(applications, possible_applications) ==
    IF Len(applications) = 0 THEN [res |-> "Ok", val |-> possible_applications]
    ELSE
    LET application == Head(applications)
        n == Tag_get_tag(application, Known("ApplicationDedicatedFileName")) IN
    IF n = None THEN applications_loop(Tail(applications), possible_applications)
    ELSE IF n.val.contents.kind # "Bytes" THEN Panic
    ELSE
    LET m == acceptable_loop(acceptable_adf_names, n.val.contents.b) IN
    IF m.res # "Ok" THEN Panic
    ELSE applications_loop(Tail(applications),
                           IF m.val THEN Append(possible_applications, application)
                           ELSE possible_applications)

\* get_pse_sfi that takes the short file identifier from the FCI template
\* itself when it has no proprietary template
get_pse_sfi_flat(select_resp) ==
    IF select_resp.res = "Panic" THEN Panic
    ELSE IF select_resp.res # "Ok" THEN None
    ELSE
    LET fci == get_tag(select_resp.val, Known("FileControlInformationTemplate")) IN
    IF fci = None THEN None ELSE
    LET fcipt == Tag_get_tag(fci.val, Known("FileControlInformationProprietaryTemplate"))
        from == IF fcipt = None THEN fci ELSE fcipt
        s == Tag_get_tag(from.val, Known("ShortFileIdentifier")) IN
    IF s = None THEN None
    ELSE IF s.val.contents.kind = "Byte" THEN Some(s.val.contents.byte)
    ELSE Panic

\* get_pse_sfi, for the value select_resp that card_select ended with
get_pse_sfi(select_resp) ==
    IF select_resp.res = "Panic" THEN Panic
    ELSE IF select_resp.res # "Ok" THEN None
    ELSE
    LET fci == get_tag(select_resp.val, Known("FileControlInformationTemplate")) IN
    IF fci = None THEN None ELSE
    LET fcipt == Tag_get_tag(fci.val, Known("FileControlInformationProprietaryTemplate")) IN
    IF fcipt = None THEN None ELSE
    LET s == Tag_get_tag(fcipt.val, Known("ShortFileIdentifier")) IN
    IF s = None THEN None
    ELSE IF s.val.contents.kind = "Byte" THEN Some(s.val.contents.byte)
    ELSE Panic

\* impl From<&Tag> for ApplicationPriorityIndicator (main.rs)
ApplicationPriorityIndicatorFrom(value) ==
    IF value.contents.kind # "Byte" THEN Panic
    ELSE [res |-> "Ok",
          val |-> [auto_selection_allowed |-> BitAnd(value.contents.byte, 128) = 0,
                   priority |-> BitAnd(value.contents.byte, 15)]]

(***************************************************************************)
(* data.rs: ApplicationPriorityIndicator and Application                   *)
(***************************************************************************)
\* the code tables code_table_index_decode has an encoding for
CodeTables == (1..8) \cup {10, 13, 14, 15, 16}

\* util.rs code_table_index_decode: the text of data in the ISO 8859 table
\* index (decoding with DecoderTrap::Ignore does not fail), None for an
\* index without encoding
code_table_index_decode(data, index) ==
    IF index \in CodeTables THEN Some([table |-> index, bytes |-> data])
    ELSE None

\* ApplicationPriorityIndicatorTryFrom that keeps the low 7 bits as priority
ApplicationPriorityIndicatorLow7(value) ==
    IF value.contents.kind # "Byte" THEN Err("Not a byte value")
    ELSE [res |-> "Ok",
          val |-> [auto_selection_allowed |-> BitAnd(value.contents.byte, 128) = 0,
                   priority |-> BitAnd(value.contents.byte, 127)]]

\* impl TryFrom<&Tag> for ApplicationPriorityIndicator
ApplicationPriorityIndicatorTryFrom(value) ==
    IF value.contents.kind # "Byte" THEN Err("Not a byte value")
    ELSE [res |-> "Ok",
          val |-> [auto_selection_allowed |-> BitAnd(value.contents.byte, 128) = 0,
                   priority |-> BitAnd(value.contents.byte, 15)]]

\* Application::get_application_name; a Panic is an unreachable!()
get_application_name(tag) ==
    LET n == Tag_get_tag(tag, Known("ApplicationPreferredName"))
        i == Tag_get_tag(tag, Known("IssuerCodeTableIndex"))
        preferred ==
            IF n # None /\ i # None THEN
                IF n.val.contents.kind # "Bytes" THEN Panic
                ELSE IF i.val.contents.kind # "Byte" THEN Panic
                ELSE code_table_index_decode(n.val.contents.b, i.val.contents.byte)
            ELSE None IN
    IF preferred # None THEN preferred
    ELSE
    LET label == Tag_get_tag(tag, Known("ApplicationLabel")) IN
    IF label = None THEN None
    ELSE IF label.val.contents.kind = "String" THEN Some(label.val.contents.s)
    ELSE IF label.val.contents.kind = "Invalid" THEN None
    ELSE Panic

\* impl TryFrom<&Tag> for Application
ApplicationTryFrom(value) ==
    LET name == get_application_name(value) IN
    IF name = Panic THEN Panic
    ELSE IF name = None THEN Err("No application name")
    ELSE
    LET p == Tag_get_tag(value, Known("ApplicationPriorityIndicator")) IN
    IF p = None THEN Err("No API")
    ELSE
    LET api == ApplicationPriorityIndicatorTryFrom(p.val) IN
    IF api.res # "Ok" THEN api
    ELSE
    LET a == Tag_get_tag(value, Known("ApplicationDedicatedFileName")) IN
    IF a = None THEN Err("No ADF name")
    ELSE IF a.val.contents.kind # "Bytes" THEN Panic
    ELSE [res |-> "Ok",
          val |-> [name |-> name.val, adf_name |-> a.val.contents.b,
                   priority |-> api.val]]

(***************************************************************************)
(* Application model: Application::try_from on a decoded application       *)
(* template                                                                *)
(***************************************************************************)
\* a tag on the wire: id, one length byte, contents
Tlv(id, contents) == id \o <<Len(contents)>> \o contents

\* the name tags of a template: none; a label "A"; a label that is not
\* UTF-8; a preferred name 0x9F12 with code table 0x9F11 1; with the
\* unsupported table 9; without table; with table 9 and a label
TemplateNames ==
    { <<>>,
      Tlv(<<80>>, <<65>>),
      Tlv(<<80>>, <<255>>),
      Tlv(<<159, 18>>, <<66>>) \o Tlv(<<159, 17>>, <<1>>),
      Tlv(<<159, 18>>, <<66>>) \o Tlv(<<159, 17>>, <<9>>),
      Tlv(<<159, 18>>, <<66>>),
      Tlv(<<159, 18>>, <<66>>) \o Tlv(<<159, 17>>, <<9>>) \o Tlv(<<80>>, <<65>>) }

\* the priority indicator 0x87 of a template: none, or one of 0x01, 0x81,
\* 0x0F, 0x8F, 0x7F, 0xF2
TemplateIndicators ==
    {<<>>} \cup {Tlv(<<135>>, <<b>>) : b \in {1, 129, 15, 143, 127, 242}}

\* the DF name 0x4F of a template: none, the Mastercard AID, an empty name
TemplateAids ==
    { <<>>, Tlv(<<79>>, <<160, 0, 0, 0, 4, 16, 16>>), Tlv(<<79>>, <<>>) }

\* application templates 0x61 on the wire
Templates ==
    {Tlv(<<97>>, n \o p \o a) :
        n \in TemplateNames, p \in TemplateIndicators, a \in TemplateAids}

InitApp ==
    /\ op = "template"
    /\ buf \in Templates
    /\ len = 0 /\ out = None /\ dol = <<>>
    /\ ApduIdle
    /\ FlowIdle

\* Application::try_from(&tag) on the tag decoded from buf
DecodeApplication ==
    /\ op = "template"
    /\ op' = "application"
    /\ out' = ApplicationTryFrom(TagListTryFrom(buf).val[1])
    /\ UNCHANGED <<buf, len, dol, apduVars, flowVars>>

NextApp == DecodeApplication

SpecApp == InitApp /\ [][NextApp]_vars

(***************************************************************************)
(* Discovery: main over a card that answers each exchange                  *)
(***************************************************************************)
MaxRecords == 3

\* send_apdu returned the data with (0x90, 0x00)
Response(data) == [res |-> "Ok", val |-> ApduResponse(data, 144, 0)]

\* FCI template 0x6F, DF name 0x84, FCI proprietary template 0xA5, short
\* file identifier 0x88, application label 0x50
SelectData ==
    { Tlv(<<111>>, Tlv(<<132>>, PseName) \o Tlv(<<165>>, Tlv(<<136>>, <<1>>))),
      Tlv(<<111>>, Tlv(<<165>>, Tlv(<<136>>, <<226>>))),
      Tlv(<<111>>, Tlv(<<165>>, Tlv(<<80>>, <<65>>))),
      Tlv(<<111>>, Tlv(<<132>>, PseName) \o Tlv(<<136>>, <<1>>)),
      Tlv(<<165>>, Tlv(<<136>>, <<1>>)),
      Tlv(<<136>>, <<1>>),
      Tlv(<<111>>, Tlv(<<165>>, Tlv(<<136>>, <<>>))),
      <<111, 5, 165>>,
      <<>> }

\* what send_apdu returns for the SELECT of the PSE
SelectResults ==
    {Response(d) : d \in SelectData} \cup {Err("FileNotFound"), Err("Transport")}

\* an application template 0x61 with a DF name 0x4F and a priority
\* indicator 0x87
ApplicationTemplate(adf_name, api) ==
    Tlv(<<97>>, Tlv(<<79>>, adf_name) \o Tlv(<<135>>, <<api>>))

\* a record: the read-record-response template 0x70 around its templates
Record(templates) == Tlv(<<112>>, templates)

Mastercard == acceptable_adf_names[1]
Visa == acceptable_adf_names[2]

\* a 7-byte AID that is neither reference AID
OtherAid == <<160, 0, 0, 0, 37, 16, 16>>

\* records: none (no template), a matching AID, a matching AID whose
\* indicator asks for confirmation, another AID, an AID one byte longer and
\* one four bytes shorter than a reference AID, a non-matching template
\* followed by a matching one, a template without DF name, a matching
\* template without indicator, a record cut short
RecordData ==
    { <<>>,
      Record(ApplicationTemplate(Mastercard, 1)),
      Record(ApplicationTemplate(Visa, 129)),
      Record(ApplicationTemplate(OtherAid, 1)),
      Record(ApplicationTemplate(Mastercard \o <<1>>, 1)),
      Record(ApplicationTemplate(<<160, 0, 0>>, 1)),
      Record(ApplicationTemplate(OtherAid, 1) \o ApplicationTemplate(Mastercard, 2)),
      Record(Tlv(<<97>>, Tlv(<<80>>, <<65>>))),
      Record(Tlv(<<97>>, Tlv(<<79>>, Visa))),
      <<112, 5>> }

\* what send_apdu returns for a READ RECORD
RecordResults ==
    {Response(d) : d \in RecordData} \cup {Err("FileNotFound"), Err("Transport")}

Exchange(cmd, result) == [cmd |-> cmd, result |-> result]

panic(msg) == [kind |-> "panic", msg |-> msg]
println(val) == [kind |-> "println", val |-> val]

InitMain ==
    /\ op = "main"
    /\ buf = <<>> /\ len = 0 /\ out = None /\ dol = <<>>
    /\ ApduIdle
    /\ call = None
    /\ main = [pc |-> "get_pse_sfi", sfi |-> None, i |-> 1,
               possible_applications |-> <<>>, exchanges |-> <<>>,
               console |-> <<>>]

\* let sfi = get_pse_sfi(&card).expect("Unable to read PSE")
GetPseSfi ==
    /\ main.pc = "get_pse_sfi"
    /\ \E result \in SelectResults :
        LET cmd == card_select_apdu_cmd(PseName, FALSE)
            sfi == get_pse_sfi(card_tag_list(result))
            exchanged == [main EXCEPT !.exchanges = Append(@, Exchange(cmd, result))] IN
        main' =
            IF sfi = Panic THEN
                [exchanged EXCEPT !.pc = "panic",
                                  !.console = Append(@, panic("index out of bounds"))]
            ELSE IF sfi = None THEN
                [exchanged EXCEPT !.pc = "panic", !.sfi = sfi,
                                  !.console = Append(@, panic("Unable to read PSE"))]
            ELSE [exchanged EXCEPT !.pc = "find_possible_applications", !.sfi = sfi,
                                   !.i = 1, !.possible_applications = <<>>]
    /\ UNCHANGED <<codecVars, apduVars, call>>

\* one iteration of the loop of find_possible_applications; `continue`
\* skips `i += 1`
ReadRecord ==
    /\ main.pc = "find_possible_applications"
    /\ Len(main.exchanges) <= MaxRecords
    /\ \E result \in RecordResults :
        LET cmd == card_read_record_apdu_cmd(main.sfi.val, main.i)
            record_result == card_tag_list(result)
            exchanged == [main EXCEPT !.exchanges = Append(@, Exchange(cmd, result))] IN
        main' =
            IF record_result.res = "Panic" THEN
                [exchanged EXCEPT !.pc = "panic",
                                  !.console = Append(@, panic("index out of bounds"))]
            ELSE IF record_result.res # "Ok" THEN [exchanged EXCEPT !.pc = "resolve"]
            ELSE
            LET record == get_tag(record_result.val,
                                  Known("ReadRecordResponseMessageTemplate")) IN
            IF record = None THEN exchanged
            ELSE
            LET applications == Tag_get_tags(record.val, Known("ApplicationTemplate"))
                found == applications_loop(applications, main.possible_applications) IN
            IF found.res # "Ok" THEN
                [exchanged EXCEPT !.pc = "panic",
                                  !.console = Append(@, panic("compare_slice: index out of bounds"))]
            ELSE [exchanged EXCEPT !.possible_applications = found.val,
                                   !.i = (main.i + 1) % 256]
    /\ UNCHANGED <<codecVars, apduVars, call>>

\* main after find_possible_applications has returned
Resolve_main ==
    /\ main.pc = "resolve"
    /\ main' =
        IF Len(main.possible_applications) = 0 THEN
            [main EXCEPT !.pc = "panic",
                         !.console = Append(@, panic("No possible applications found"))]
        ELSE IF Len(main.possible_applications) = 1 THEN
            LET application == main.possible_applications[1]
                api == Tag_get_tag(application, Known("ApplicationPriorityIndicator")) IN
            IF api = None THEN
                [main EXCEPT !.pc = "panic", !.console = Append(@, panic("No API"))]
            ELSE
            LET priority == ApplicationPriorityIndicatorFrom(api.val) IN
            IF priority.res # "Ok" THEN
                [main EXCEPT !.pc = "panic", !.console = Append(@, panic("unreachable"))]
            ELSE [main EXCEPT !.pc = "done",
                              !.console = @ \o <<println(priority.val),
                                                 println(main.possible_applications)>>]
        ELSE [main EXCEPT !.pc = "done",
                          !.console = Append(@, println(main.possible_applications))]
    /\ UNCHANGED <<codecVars, apduVars, call>>

NextMain == GetPseSfi \/ ReadRecord \/ Resolve_main

SpecMain == InitMain /\ [][NextMain]_vars

(***************************************************************************)
(* Reference notions the properties are stated with                        *)
(***************************************************************************)
\* the BER length field of a content length n: short form up to 127, else
\* 0x80 | count followed by the minimal big-endian bytes of n
BerLength(n) ==
    IF n <= 127 THEN <<n>>
    ELSE LET b == StripLeadingZeros(to_be_bytes(n, 4)) IN <<128 + Len(b)>> \o b

\* tag-id reading as BER high-tag-number form has it: the continuation test
\* is made on the byte just read
RECURSIVE BerReadIdLoop(_, _, _)
BerReadIdLoop(vec, id, last) ==
    IF BitSet(last, 128) THEN
        IF Len(vec) = 0 THEN Eof
        ELSE BerReadIdLoop(Tail(vec), ShlOr(id, Head(vec)), Head(vec))
    ELSE Ok(id, vec)

BerReadId(vec) ==
    IF Len(vec) = 0 THEN Eof
    ELSE IF Head(vec) % 32 = 31 THEN
        IF Len(vec) = 1 THEN Eof
        ELSE BerReadIdLoop(Drop(vec, 2), <<0, 0, vec[1], vec[2]>>, vec[2])
    ELSE Ok(<<0, 0, 0, Head(vec)>>, Tail(vec))

\* the top-level tags of a byte string, as the readers split it: for each
\* its id, the bytes of its id and length fields, its content and its size;
\* the split stops at the first tag that cannot be read
RECURSIVE TopLevel(_)
TopLevel(bytes) ==
    IF Len(bytes) = 0 THEN <<>>
    ELSE
    LET id == read_id(bytes) IN
    IF id.res # "Ok" THEN <<>> ELSE
    LET length == read_length(id.rest) IN
    IF length.res # "Ok" THEN <<>> ELSE
    LET contents == read_content(length.rest, length.val) IN
    IF contents.res # "Ok" THEN <<>> ELSE
    <<[id |-> id.val,
       idField |-> SubSeq(bytes, 1, Len(bytes) - Len(id.rest)),
       lenField |-> SubSeq(id.rest, 1, Len(id.rest) - Len(length.rest)),
       content |-> contents.val,
       size |-> Len(bytes) - Len(contents.rest)]>> \o TopLevel(contents.rest)

\* the offsets of bytes at which its first n top-level tags end
RECURSIVE EndOf(_, _)
EndOf(tags, n) == IF n = 0 THEN 0 ELSE EndOf(tags, n - 1) + tags[n].size

TagEnds(bytes) == LET t == TopLevel(bytes) IN {EndOf(t, n) : n \in 1..Len(t)}

\* the cuts of bytes that fall inside a tag: after its first byte and before
\* its last
InsideCuts(bytes) == (1..(Len(bytes) - 1)) \ TagEnds(bytes)

\* the most significant non-zero byte of a u32 (the first id byte on the wire)
LeadingByte(id) ==
    IF \A i \in 1..4 : id[i] = 0 THEN 0
    ELSE id[CHOOSE i \in 1..4 : id[i] # 0 /\ \A j \in 1..(i - 1) : id[j] = 0]

\* the least significant non-zero byte of a u32
LowestNonZeroByte(id) ==
    IF \A i \in 1..4 : id[i] = 0 THEN 0
    ELSE id[CHOOSE i \in 1..4 : id[i] # 0 /\ \A j \in (i + 1)..4 : id[j] = 0]

\* every tag of bytes, nested ones included, has a minimal id field and a
\* minimal length field
RECURSIVE MinimalEncoding(_)
MinimalEncoding(bytes) ==
    LET t == TopLevel(bytes) IN
    \A i \in 1..Len(t) :
        /\ t[i].idField = StripLeadingZeros(t[i].id)
        /\ t[i].lenField = BerLength(Len(t[i].content))
        /\ BitSet(LeadingByte(t[i].id), 32) => MinimalEncoding(t[i].content)

(***************************************************************************)
(* Properties of the TLV codec                                             *)
(***************************************************************************)
\* C1: a minimally encoded byte string that decodes re-encodes to itself,
\* for well-known tag ids as well as Unknown ones
C1_RoundTrip ==
    (op = "encode" /\ MinimalEncoding(buf)) => out = [res |-> "Ok", val |-> buf]

\* C2: for L in {0, 127, 128, 65535} make_length gives the BER length field
\* and read_length reads L back, consuming exactly that field
C2_LengthBoundaries ==
    (op = "read_length" /\ len \in {0, 127, 128, 65535}) =>
        /\ out.field = BerLength(len)
        /\ out.read = Ok(to_be_bytes(len, 8), buf)

\* C3: read_id stops at the first continuation byte without the high bit:
\* whenever such a byte is there, it returns the id read up to it and leaves
\* the bytes after it (0x5F 0x2D: 2 bytes; 0xDF 0x81 0x01: 3 bytes)
C3_TagIdContinuation ==
    (op = "read_id" /\ BerReadId(buf).res = "Ok") => out = BerReadId(buf)

\* C4: decoding a prefix of a decodable byte string that is cut inside a tag
\* fails with Eof
C4_TruncationEof ==
    (op = "decode" /\ out.res = "Ok") =>
        \A k \in InsideCuts(buf) : TagListTryFrom(SubSeq(buf, 1, k)) = Eof

\* C4 witness: a decoded 5-byte constructed tag with a two-byte id, cut
\* inside its id, after its id, after its length and inside its content
C4_Witness ==
    /\ op = "decode" /\ out.res = "Ok"
    /\ Len(buf) = 5 /\ InsideCuts(buf) = {1, 2, 3, 4}
    /\ out.val[1].contents.kind = "Constructed"

\* the byte of a tag id the claim tests: its most significant non-zero byte
\* (leading) or its least significant non-zero byte
IdByte(id, leading) == IF leading THEN LeadingByte(id) ELSE LowestNonZeroByte(id)

\* the content of every top-level tag was decoded as a nested TagList
\* exactly when the tested byte of its id has bit 0x20 set, and
\* is_id_primitive is the negation of that test
ConstructedBy(leading) ==
    LET t == TopLevel(buf) IN
    \A i \in 1..Len(out.val) :
        /\ (out.val[i].contents.kind = "Constructed") <=> BitSet(IdByte(t[i].id, leading), 32)
        /\ is_id_primitive(t[i].id) <=> ~BitSet(IdByte(t[i].id, leading), 32)

\* C5 as stated: the test is made on the id's lowest non-zero byte
C5_ConstructedByLowestByte ==
    (op = "decode" /\ out.res = "Ok") => ConstructedBy(FALSE)

\* C5 amended: the test is made on the id's most significant non-zero byte,
\* the first id byte on the wire (0xBF0C constructed, 0x5F2D primitive)
C5_ConstructedByLeadingByte ==
    (op = "decode" /\ out.res = "Ok") => ConstructedBy(TRUE)

\* C5 witness: 0xBF 0x0C with a nested primitive tag in it, decoded as a
\* constructed tag
C5_Witness ==
    /\ op = "decode" /\ out.res = "Ok" /\ Len(out.val) = 1
    /\ out.val[1].id.name = "FileControlInformationIssuerDiscretionaryData"
    /\ out.val[1].contents.kind = "Constructed"
    /\ Len(out.val[1].contents.tl) = 1
    /\ out.val[1].contents.tl[1].contents.kind = "Bytes"

\* C20: decoding a byte string ends with a TagList or with the Eof failure,
\* never with an abort, a single-byte tag (0x88, 0x87, 0x9F11) of length 0
\* included
C20_DecodeTotality ==
    op = "decode" => out.res \in {"Ok", "Eof"}

(***************************************************************************)
(* Properties of the APDU transport.  log[i] is the i-th transmit of the   *)
(* exchange, n = Len(log).                                                 *)
(***************************************************************************)
\* the i-th transmit was answered with a response (not a transport error)
Answered(i) == i \in 1..Len(log) /\ log[i].reply \in Replies

Sw1Is(i, sw1) == Answered(i) /\ log[i].reply.sw1 = sw1

\* the data of the responses i..j, in transmit order
RECURSIVE ConcatData(_, _)
ConcatData(i, j) == IF i > j THEN <<>> ELSE log[i].reply.data \o ConcatData(i + 1, j)

\* transmits k..n-1 were answered 0x61 and the last one (0x90, 0x00)
ChainFrom(k) ==
    /\ k <= Len(log)
    /\ \A i \in k..(Len(log) - 1) : Sw1Is(i, 97)
    /\ Answered(Len(log))
    /\ log[Len(log)].reply.sw1 = 144 /\ log[Len(log)].reply.sw2 = 0

\* C6: a response with sw1 = 0x61 is followed by GET RESPONSE (originating
\* class, INS 0xC0, p1 = p2 = 0, no data, Le = sw2), and a chain that ends
\* with (0x90, 0x00) returns the data of all its responses in transmit order
C6_Chaining ==
    /\ \A i \in 1..Len(log) : Sw1Is(i, 97) =>
        IF i < Len(log)
        THEN log[i + 1].cmd = ApduCommand(log[1].cmd.class, 192, 0, 0, <<>>,
                                          log[i].reply.sw2)
        ELSE ~Done
    /\ (Done /\ ChainFrom(1)) =>
        ret = [res |-> "Ok", val |-> ApduResponse(ConcatData(1, Len(log)), 144, 0)]

\* C6 witness: a GET PROCESSING OPTIONS answered 0x61, 0x61, (0x90, 0x00)
\* has returned the three payloads
C6_Witness ==
    /\ Done /\ Len(log) = 3 /\ ChainFrom(1)
    /\ log[1].cmd.class = 128
    /\ log[1].reply.data = <<136>> /\ log[2].reply.data = <<0, 1>>
    /\ log[3].reply.data = <<136>>
    /\ ret.res = "Ok" /\ ret.val.data = <<136, 0, 1, 136>>

\* a response with sw1 = 0x6C is followed by the same command with Le = sw2
ReissueFollows ==
    \A i \in 1..Len(log) : Sw1Is(i, 108) =>
        IF i < Len(log)
        THEN log[i + 1].cmd = [log[i].cmd EXCEPT !.length_expected = log[i].reply.sw2]
        ELSE ~Done

\* when the command is answered 0x6C k times, what is returned is the result
\* of the last reissue alone: the data of its chain, or its failure
ReissueAsIs ==
    \A k \in 1..(Len(log) - 1) :
        (/\ Done
         /\ \A i \in 1..k : Sw1Is(i, 108)
         /\ \A i \in (k + 1)..(Len(log) - 1) : Sw1Is(i, 97)
         /\ Answered(Len(log))
         /\ log[Len(log)].reply.sw1 \notin {97, 108}) =>
            IF ChainFrom(k + 1)
            THEN ret = [res |-> "Ok",
                        val |-> ApduResponse(ConcatData(k + 1, Len(log)), 144, 0)]
            ELSE ret.res = "Err"

\* the length-correction reissues made so far
Reissues == {i \in 2..Len(log) : Sw1Is(i - 1, 108)}

\* C7 as stated: sw1 = 0x6C triggers the reissue of the unchanged command
\* with Le = sw2, its result is returned as-is, and an exchange makes exactly
\* one such reissue whatever the card does
C7_ExactlyOneReissue ==
    /\ ReissueFollows
    /\ ReissueAsIs
    /\ Cardinality(Reissues) <= 1

\* what send_apdu does instead: every response with sw1 = 0x6C, the answer
\* to a reissue included, triggers one more reissue, so an exchange makes as
\* many reissues as it receives 0x6C responses
ReissuePerCorrection ==
    /\ ReissueFollows
    /\ ReissueAsIs
    /\ Done => Cardinality(Reissues) = Cardinality({i \in 1..Len(log) : Sw1Is(i, 108)})

\* a SELECT answered 0x6C twice, then (0x90, 0x00)
TwoReissues ==
    /\ Done /\ Len(log) = 3
    /\ Sw1Is(1, 108) /\ Sw1Is(2, 108) /\ ChainFrom(3)
    /\ log[1].cmd.data = <<49, 80>>
    /\ log[1].reply.data = <<136>> /\ log[3].reply.data = <<0, 1>>
    /\ ret.res = "Ok" /\ ret.val.data = <<0, 1>>

\* the data of the responses i..n in transmit order, those answered 0x6C
\* left out (the reissue supersedes them)
RECURSIVE Accumulated(_)
Accumulated(i) ==
    IF i > Len(log) THEN <<>>
    ELSE (IF log[i].reply.sw1 = 108 THEN <<>> ELSE log[i].reply.data) \o Accumulated(i + 1)

\* C8: the status of the last response decides what send_apdu returns:
\* (0x90, 0x00) success with the accumulated data, (0x6A, 0x81) unsupported
\* feature, (0x6A, 0x82) and (0x6A, 0x83) not found, any other the unknown
\* failure; success is returned for (0x90, 0x00) alone
C8_StatusResolution ==
    (Done /\ Answered(Len(log))) =>
        LET last == log[Len(log)].reply
            sw == <<last.sw1, last.sw2>> IN
        /\ sw = <<144, 0>> =>
            /\ ret.res = "Ok"
            /\ ret.val.sw1 = 144 /\ ret.val.sw2 = 0
            /\ ret.val.data = Accumulated(1)
        /\ sw = <<106, 129>> => ret = Err("UnsupportedFeature")
        /\ sw \in {<<106, 130>>, <<106, 131>>} => ret = Err("FileNotFound")
        /\ sw \notin {<<144, 0>>, <<106, 129>>, <<106, 130>>, <<106, 131>>} =>
            ret = Err("UnknownError")
        /\ ret.res = "Ok" => sw = <<144, 0>>

\* C8 witness: a GET RESPONSE answered (0x6A, 0x83) has ended the exchange
\* with the not-found failure
C8_Witness ==
    /\ Done /\ Len(log) = 2 /\ Sw1Is(1, 97)
    /\ Answered(2) /\ log[2].reply.sw1 = 106 /\ log[2].reply.sw2 = 131
    /\ ret = Err("FileNotFound")

\* the i-th transmit is framed as class, instruction, p1, p2, then Lc and
\* the data when there is data, then Le, into a buffer of Le + 2 bytes
\* (256 + 2 for Le = 0)
Framed(i) ==
    LET c == log[i].cmd IN
    /\ log[i].apdu_out =
         <<c.class, c.instruction, c.param1, c.param2>>
         \o (IF c.data # <<>> THEN <<Len(c.data)>> \o c.data ELSE <<>>)
         \o <<c.length_expected>>
    /\ log[i].apdu_in_len = IF c.length_expected = 0 THEN 258 ELSE c.length_expected + 2

\* C9 as stated: every transmitted command is framed so
C9_Framing == \A i \in 1..Len(log) : Framed(i)

\* C9 amended: every transmitted command whose data is at most 255 bytes is
\* framed so; for longer data the Lc byte is the data length modulo 256
C9_FramingByteLength ==
    \A i \in 1..Len(log) :
        /\ Len(log[i].cmd.data) <= 255 => Framed(i)
        /\ Len(log[i].cmd.data) > 0 => log[i].apdu_out[5] = Len(log[i].cmd.data) % 256
        /\ Len(log[i].apdu_out) =
             5 + Len(log[i].cmd.data) + (IF Len(log[i].cmd.data) > 0 THEN 1 ELSE 0)

\* C9 witness: a SELECT with data and Le = 0, then a GET RESPONSE without
\* data and with Le = 10
C9_Witness ==
    /\ Len(log) >= 2
    /\ log[1].apdu_out = <<0, 164, 4, 0, 2, 49, 80, 0>> /\ log[1].apdu_in_len = 258
    /\ log[2].apdu_out = <<0, 192, 0, 0, 10>> /\ log[2].apdu_in_len = 12

\* the i-th call of card.transmit failed
TransportFailed(i) == i \in 1..Len(log) /\ log[i].reply \notin Replies

\* the failure a failing status stands for
StatusFailure(sw1, sw2) ==
    IF sw1 = 106 /\ sw2 = 129 THEN "UnsupportedFeature"
    ELSE IF sw1 = 106 /\ sw2 \in {130, 131} THEN "FileNotFound"
    ELSE "UnknownError"

\* the exchange has ended on a GET RESPONSE follow-up (or its reissue) that
\* the card answered with a failing status
FollowUpFailed ==
    /\ Done /\ Len(log) >= 2
    /\ Answered(Len(log))
    /\ log[Len(log)].cmd.instruction = 192
    /\ <<log[Len(log)].reply.sw1, log[Len(log)].reply.sw2>> # <<144, 0>>

\* C21: when a call of card.transmit fails (for the initial command, a GET
\* RESPONSE follow-up or a length-correction reissue), that failure is what
\* send_apdu returns, no transmit follows it, and every call of send_apdu
\* still open only waits to hand the failure on; when a GET RESPONSE
\* follow-up ends with a failing status, send_apdu returns that failure,
\* which carries none of the data received before it
C21_TransportFailurePropagation ==
    /\ \A i \in 1..Len(log) : TransportFailed(i) =>
        /\ i = Len(log)
        /\ ret = log[i].reply
        /\ \A k \in 1..Len(stack) : stack[k].pc \in {"get_response", "correct"}
    /\ FollowUpFailed =>
        /\ ret = [res |-> "Err",
                  err |-> StatusFailure(log[Len(log)].reply.sw1,
                                        log[Len(log)].reply.sw2)]
        /\ DOMAIN ret = {"res", "err"}

\* C21 witness: a READ RECORD answered 0x61 with one byte of data, whose GET
\* RESPONSE follow-up failed in transport: the exchange has ended with that
\* failure after two transmits, short of the most the card would answer
C21_Witness ==
    /\ Done /\ Len(log) = 2 /\ Len(log) < MaxTransmits
    /\ log[1].cmd.instruction = 178
    /\ Sw1Is(1, 97) /\ log[1].reply.data = <<136>>
    /\ log[2].cmd.instruction = 192
    /\ TransportFailed(2)
    /\ ret = Err("Transport")

\* a GET RESPONSE follow-up answered (0x6A, 0x82) after two bytes of data
\* have been received: the exchange has ended with the not-found failure
FollowUpNotFound ==
    /\ FollowUpFailed /\ Len(log) = 2
    /\ Sw1Is(1, 97) /\ log[1].reply.data = <<0, 1>>
    /\ log[2].reply.sw1 = 106 /\ log[2].reply.sw2 = 130
    /\ ret = Err("FileNotFound")

\* a length-correction reissue failed in transport
ReissueTransportFailed ==
    /\ Done /\ Len(log) = 2
    /\ Sw1Is(1, 108) /\ TransportFailed(2)
    /\ log[2].cmd = [log[1].cmd EXCEPT !.length_expected = log[1].reply.sw2]
    /\ ret = Err("Transport")

(***************************************************************************)
(* Properties of the DOL codec                                             *)
(***************************************************************************)
\* a value of numeric origin is a Number
NumericOrigin(contents) == contents.kind = "Number"

\* the bytes a field's value converts to (unset and nested values are not
\* converted)
ValueBytes(contents) ==
    CASE contents.kind = "String" -> contents.s
      [] contents.kind = "Bytes" -> contents.b
      [] contents.kind = "Byte" -> <<contents.byte>>
      [] contents.kind = "Number" -> contents.n

\* C10: a value shorter than its field is left-padded with zeros when of
\* numeric origin and right-padded otherwise; the number 5 in a 2-byte field
\* encodes as [0x00, 0x05] and the byte 5 as [0x05, 0x00]
C10_DolPadding ==
    /\ (op = "fit_bytes" /\ Len(buf) < len) =>
        out.bytes = IF out.numeric THEN Zeros(len - Len(buf)) \o buf
                    ELSE buf \o Zeros(len - Len(buf))
    /\ (op = "dol_encode" /\ Len(dol) = 1) =>
        LET f == dol[1] IN
        /\ (f.contents = Number(<<0, 0, 0, 5>>) /\ f.exp_len = 2) => out = <<0, 5>>
        /\ (f.contents = Byte(5) /\ f.exp_len = 2) => out = <<5, 0>>
        /\ (/\ f.contents.kind \in {"String", "Bytes", "Byte", "Number"}
            /\ Len(ValueBytes(f.contents)) < f.exp_len) =>
              LET v == ValueBytes(f.contents)
                  pad == Zeros(f.exp_len - Len(v)) IN
              out = IF NumericOrigin(f.contents) THEN pad \o v ELSE v \o pad

\* the (tag-id, expected-length) pairs of a DOL on the wire, ids read as
\* BER tag ids; ok is false when the bytes do not end with a pair
RECURSIVE DolPairs(_)
DolPairs(bytes) ==
    IF Len(bytes) = 0 THEN [ok |-> TRUE, pairs |-> <<>>]
    ELSE
    LET id == BerReadId(bytes) IN
    IF id.res # "Ok" THEN [ok |-> FALSE, pairs |-> <<>>]
    ELSE IF Len(id.rest) = 0 THEN [ok |-> FALSE, pairs |-> <<>>]
    ELSE
    LET rest == DolPairs(Tail(id.rest)) IN
    [ok |-> rest.ok,
     pairs |-> <<[id |-> id.val, exp_len |-> Head(id.rest)]>> \o rest.pairs]

\* C17: a byte string made of k (tag-id, expected-length) pairs decodes to
\* a DOL of k fields in wire order, field i with the id and the expected
\* length of pair i and no value, whether or not the id is constructed
C17_DolDecode ==
    (op = "dol_decode" /\ DolPairs(buf).ok) =>
        LET pairs == DolPairs(buf).pairs IN
        /\ out.res = "Ok"
        /\ Len(out.val) = Len(pairs)
        /\ \A k \in 1..Len(pairs) :
              out.val[k] = DOLTag(TagIDFrom(pairs[k].id), Invalid, pairs[k].exp_len)

\* the sum of the expected lengths of the fields
RECURSIVE SumExpLen(_)
SumExpLen(fields) ==
    IF Len(fields) = 0 THEN 0 ELSE Head(fields).exp_len + SumExpLen(Tail(fields))

\* the bytes of out that field k of dol is encoded to
Segment(k) ==
    LET before == SumExpLen(SubSeq(dol, 1, k - 1)) IN
    SubSeq(out, before + 1, before + dol[k].exp_len)

\* C18: the encoding of a DOL is as long as the sum of the expected lengths
\* of its fields whatever their values, a field without value is encoded
\* as zeros, and a DOL decoded from the wire is encoded as zeros only
C18_DolFixedWidth ==
    /\ op \in {"dol_encode", "dol_reencode"} =>
          /\ Len(out) = SumExpLen(dol)
          /\ \A k \in 1..Len(dol) :
                dol[k].contents = Invalid => Segment(k) = Zeros(dol[k].exp_len)
    /\ op = "dol_reencode" => \A k \in 1..Len(out) : out[k] = 0

\* C18 witness: a 4-byte value in a 2-byte field and a field of 3 bytes
\* without value, encoded together
C18_Witness ==
    /\ op = "dol_encode" /\ Len(dol) = 2
    /\ dol[1].contents = Bytes(<<1, 2, 3, 4>>) /\ dol[1].exp_len = 2
    /\ dol[2].contents = Invalid /\ dol[2].exp_len = 3
    /\ out = <<1, 2, 0, 0, 0>>

\* C11: a value longer than its field is cut to the field's length: to its
\* trailing bytes when of numeric origin and to its leading bytes otherwise,
\* for every value length and every shorter field length
C11_DolTruncation ==
    /\ (op = "fit_bytes" /\ Len(buf) > len) =>
        out.bytes = IF out.numeric THEN SubSeq(buf, Len(buf) - len + 1, Len(buf))
                    ELSE SubSeq(buf, 1, len)
    /\ (op = "dol_encode" /\ Len(dol) = 1) =>
        LET f == dol[1] IN
        (/\ f.contents.kind \in {"String", "Bytes", "Byte", "Number"}
         /\ Len(ValueBytes(f.contents)) > f.exp_len) =>
            LET v == ValueBytes(f.contents) IN
            out = IF NumericOrigin(f.contents)
                  THEN SubSeq(v, Len(v) - f.exp_len + 1, Len(v))
                  ELSE SubSeq(v, 1, f.exp_len)

(***************************************************************************)
(* Properties of the card commands                                         *)
(***************************************************************************)
\* the command the call is to transmit first
FirstCommand ==
    CASE call.fn = "card_select" ->
            [class |-> 0, instruction |-> 164, param1 |-> 4,
             param2 |-> IF call.next THEN 2 ELSE 0,
             data |-> call.file_name, length_expected |-> 0]
      [] call.fn = "card_read_record" ->
            [class |-> 0, instruction |-> 178, param1 |-> call.record_number,
             param2 |-> (call.short_file_identifier % 32) * 8 + 4,
             data |-> <<>>, length_expected |-> 0]
      [] call.fn = "card_get_processing_options" ->
            [class |-> 128, instruction |-> 168, param1 |-> 0, param2 |-> 0,
             data |-> call.pdol, length_expected |-> 0]

\* the exchange ended with a response whose status is (0x90, 0x00)
ExchangeOk ==
    /\ Answered(Len(log))
    /\ log[Len(log)].reply.sw1 = 144 /\ log[Len(log)].reply.sw2 = 0

Decoded(k) ==
    LET r == main.exchanges[k].result IN
    IF r.res = "Ok" THEN TagListTryFrom(r.val.data) ELSE r

IsReadRecord(k) == main.exchanges[k].cmd.instruction = 178

\* the application templates of the k-th exchange: those of the
\* read-record-response templates of a READ RECORD that succeeded
TemplatesOf(k) ==
    IF IsReadRecord(k) /\ Decoded(k).res = "Ok" THEN
        LET records == SelectSeq(Decoded(k).val,
                                 LAMBDA t : t.id = Known("ReadRecordResponseMessageTemplate")) IN
        IF Len(records) = 0 THEN <<>>
        ELSE SelectSeq(records[1].contents.tl,
                       LAMBDA t : t.id = Known("ApplicationTemplate"))
    ELSE <<>>

\* the application templates of the exchanges 1..k, in encounter order
RECURSIVE Encountered(_)
Encountered(k) == IF k = 0 THEN <<>> ELSE Encountered(k - 1) \o TemplatesOf(k)

\* the tags of a TagList and the tags nested in a tag
Elements(tags) == {tags[k] : k \in 1..Len(tags)}
Children(tag) ==
    IF tag.contents.kind = "Constructed" THEN Elements(tag.contents.tl) ELSE {}

\* the dedicated-file names of a template
AidsOf(template) ==
    {t.contents.b :
        t \in {c \in Children(template) : c.id = Known("ApplicationDedicatedFileName")}}

\* the template's dedicated-file name is one of the two reference AIDs,
\* byte for byte
ExactAid(template) ==
    \E aid \in AidsOf(template) : aid = Mastercard \/ aid = Visa

\* find_possible_applications has returned: the last READ RECORD failed
Returned ==
    /\ Len(main.exchanges) >= 2
    /\ Decoded(Len(main.exchanges)).res \notin {"Ok", "Panic"}

\* C12: find_possible_applications returns exactly the templates whose
\* dedicated-file name equals a reference AID, and the comparison completes
\* whatever the length of the name
C12_DiscoveryFiltering ==
    /\ \A k \in 1..Len(main.console) :
          main.console[k] # panic("compare_slice: index out of bounds")
    /\ Returned =>
          main.possible_applications =
              SelectSeq(Encountered(Len(main.exchanges)), ExactAid)

\* the READ RECORD exchanges, in order
Reads == SelectSeq(main.exchanges, LAMBDA e : e.cmd.instruction = 178)

\* C13: READ RECORD is issued for the record numbers 1, 2, 3, ... in order,
\* each once; no READ RECORD follows one that failed; the templates
\* returned are in encounter order
C13_RecordLoop ==
    /\ \A k \in 1..Len(Reads) : Reads[k].cmd.param1 = k
    /\ \A k \in 2..Len(main.exchanges) :
          k < Len(main.exchanges) => Decoded(k).res = "Ok"
    /\ Returned =>
          LET returned == {main.possible_applications[k] :
                              k \in 1..Len(main.possible_applications)} IN
          main.possible_applications =
              SelectSeq(Encountered(Len(main.exchanges)), LAMBDA t : t \in returned)

\* the indicator bytes of a template
IndicatorsOf(template) ==
    {t.contents.byte :
        t \in {c \in Children(template) : c.id = Known("ApplicationPriorityIndicator")}}

\* the flow has asked the prompt collaborator
Asked == \E k \in 1..Len(main.console) : main.console[k].kind = "ask"

\* C14: with one candidate whose indicator byte has its high bit set the
\* flow does not go on without having asked for confirmation; with no
\* candidate it ends reporting that no application was found
C14_SingleCandidateResolution ==
    /\ (/\ main.pc = "done"
         /\ Len(main.possible_applications) = 1
         /\ \E b \in IndicatorsOf(main.possible_applications[1]) : b >= 128) => Asked
    /\ (/\ Returned
         /\ main.pc # "resolve"
         /\ Len(main.possible_applications) = 0) =>
          /\ main.pc = "panic"
          /\ main.console[Len(main.console)] = panic("No possible applications found")

\* the short file identifiers the tags hold along the path FCI template,
\* FCI proprietary template, short file identifier
SfiPaths(tags) ==
    LET fcis == {f \in Elements(tags) : f.id = Known("FileControlInformationTemplate")}
        fcipts == {p \in UNION {Children(f) : f \in fcis} :
                      p.id = Known("FileControlInformationProprietaryTemplate")}
        sfis == {t \in UNION {Children(p) : p \in fcipts} :
                    t.id = Known("ShortFileIdentifier")} IN
    {t.contents.byte : t \in sfis}

\* C19: the first exchange is the SELECT of "1PAY.SYS.DDF01"; get_pse_sfi
\* returns a short file identifier only when the response holds it along
\* the path; when the SELECT fails or a level of the path is missing it
\* returns None; and without a short file identifier no READ RECORD is sent
C19_PseSfi ==
    /\ Len(main.exchanges) >= 1 =>
          main.exchanges[1].cmd =
              [class |-> 0, instruction |-> 164, param1 |-> 4, param2 |-> 0,
               data |-> PseName, length_expected |-> 0]
    /\ main.pc # "get_pse_sfi" =>
          /\ main.sfi.res = "Some" =>
                /\ Decoded(1).res = "Ok"
                /\ main.sfi.val \in SfiPaths(Decoded(1).val)
          /\ Decoded(1).res \notin {"Ok", "Panic"} => main.sfi = None
          /\ (Decoded(1).res = "Ok" /\ SfiPaths(Decoded(1).val) = {}) => main.sfi = None
    /\ main.sfi.res # "Some" => \A k \in 1..Len(main.exchanges) : ~IsReadRecord(k)

\* C19 witness: the SELECT was answered with an FCI template that holds a
\* short file identifier outside a proprietary template; no SFI, the flow
\* has ended and nothing but the SELECT was sent
C19_Witness ==
    /\ main.pc = "panic" /\ main.sfi = None
    /\ Len(main.exchanges) = 1
    /\ main.exchanges[1].result =
          Response(Tlv(<<111>>, Tlv(<<132>>, PseName) \o Tlv(<<136>>, <<1>>)))
    /\ main.console = <<panic("Unable to read PSE")>>

(***************************************************************************)
(* Properties of the application model                                     *)
(***************************************************************************)
\* the application template decoded from buf
Template == TagListTryFrom(buf).val[1]

\* the template has a name: a preferred name with a code table that has an
\* encoding, or a label that is text
HasName ==
    \/ /\ \E t \in Children(Template) : t.id = Known("ApplicationPreferredName")
       /\ \E t \in Children(Template) :
             /\ t.id = Known("IssuerCodeTableIndex")
             /\ t.contents.byte \in {1, 2, 3, 4, 5, 6, 7, 8, 10, 13, 14, 15, 16}
    \/ \E t \in Children(Template) :
          t.id = Known("ApplicationLabel") /\ t.contents.kind = "String"

\* C15: Application::try_from returns an Application or an error value and
\* never aborts; it succeeds exactly when the template has a name, a
\* priority indicator and a dedicated-file name; on success
\* auto_selection_allowed is true exactly when the indicator byte is below
\* 0x80 and priority is the byte modulo 16
C15_ApplicationDecoding ==
    op = "application" =>
        /\ out.res \in {"Ok", "Err"}
        /\ out.res = "Ok" <=>
              /\ HasName
              /\ IndicatorsOf(Template) # {}
              /\ AidsOf(Template) # {}
        /\ out.res = "Ok" =>
              /\ \E b \in IndicatorsOf(Template) :
                    /\ out.val.priority.auto_selection_allowed <=> b < 128
                    /\ out.val.priority.priority = b % 16
              /\ out.val.adf_name \in AidsOf(Template)

\* C15 witness: a template with a label, the indicator 0xF2 and the
\* Mastercard AID decoded to an application of priority 2 that asks for
\* confirmation
C15_Witness ==
    /\ op = "application" /\ out.res = "Ok"
    /\ buf = Tlv(<<97>>, Tlv(<<80>>, <<65>>) \o Tlv(<<135>>, <<242>>)
                          \o Tlv(<<79>>, Mastercard))
    /\ out.val.name = <<65>>
    /\ out.val.priority = [auto_selection_allowed |-> FALSE, priority |-> 2]
    /\ out.val.adf_name = Mastercard

====
